---- MODULE Spec2Model ----
(***************************************************************************)
(* Student Management API (src/index.js, src/databaseConnection.js).       *)
(*                                                                         *)
(* The process: startServer runs connectDB, then initTable, then binds     *)
(* the listener; each of the five /students routes acquires a pooled       *)
(* client, runs one SQL statement against the students table and answers   *)
(* with a JSON envelope.  The relational engine is modelled by what the    *)
(* statements of the source do under the schema of initTable: SERIAL id,   *)
(* VARCHAR(n) columns, INTEGER age, UNIQUE rollnumber, COALESCE merge.     *)
(*                                                                         *)
(* Strings are sequences of character codes, so that ORDER BY rollnumber   *)
(* is the string order ("10" sorts before "2").  JSON body values are      *)
(* tagged records, so that absent, null, "" and 0 stay distinct.           *)
(***************************************************************************)
EXTENDS Integers, Sequences, FiniteSets, TLC

VARIABLES boot, connected, dbError, listening, exitCode,
          checkedOut, tableReady, store, seq, now, usedIds,
          phase, req, resp, holds

vars == <<boot, connected, dbError, listening, exitCode,
          checkedOut, tableReady, store, seq, now, usedIds,
          phase, req, resp, holds>>

\* boot       where startServer stands: connectDB, its test query,
\*            initTable, its CREATE TABLE, app.listen, or process.exit
\* connected  what connectDB returned ("pending" until it returns)
\* dbError    whether a catch of startup logged a database error
\* listening  whether app.listen bound the port; exitCode of process.exit
\* checkedOut clients of the pool that are out: by startup, by requests
\* tableReady whether the students table exists in the database
\* store      the rows of students; seq the last value of the id sequence
\* now        CURRENT_TIMESTAMP as a logical clock
\* usedIds    every id a stored row has ever had (history, read by no action)
\* phase, req, resp, holds
\*            per request in flight: the handler's position, the request,
\*            the answer sent, and whether the handler holds a client

bootVars == <<boot, connected, dbError, listening, exitCode>>
dbVars   == <<tableReady, store, seq, now, usedIds>>
reqVars  == <<phase, req, resp, holds>>

----------------------------------------------------------------------------
(* Bounds of the model *)

\* size of the pg pool (the library's default max; the source sets none)
PoolMax == 2
\* the students_id_seq sequence is driven no further than this
MaxSeq == 2
\* the same, where every request is a create of one rollnumber
MaxDupSeq == 4

----------------------------------------------------------------------------
(* Program constants *)

NameLen == 100
RollLen == 50
CityLen == 100
\* the largest value of an INTEGER column
IntMax == 2147483647

----------------------------------------------------------------------------
(* JSON values of a request body *)

\* a string carries its characters, a number its decimal text
Undefined == [t |-> "undefined", s |-> <<>>]
Null      == [t |-> "null", s |-> <<>>]
Str(s)    == [t |-> "string", s |-> s]
Num(d)    == [t |-> "number", s |-> d]

----------------------------------------------------------------------------
(* Rows, requests and responses *)

\* a row of the students table
Student(id, name, age, rollnumber, city, created_at) ==
    [id |-> id, name |-> name, age |-> age, rollnumber |-> rollnumber,
     city |-> city, created_at |-> created_at]

\* const { name, age, rollnumber, city } = req.body
Body(name, age, rollnumber, city) ==
    [name |-> name, age |-> age, rollnumber |-> rollnumber, city |-> city]

NoBody == Body(Undefined, Undefined, Undefined, Undefined)

\* a request: the route, req.params.rollnumber and req.body
Request(op, roll, body) == [op |-> op, roll |-> roll, body |-> body]

NoRequest == Request("none", <<>>, NoBody)

\* res.status(status).json({success, message, data, count}); err is the
\* code of the error the handler caught and logged ("" for none), count
\* is -1 when the envelope has none
Reply(status, success, message, data, count, err) ==
    [status |-> status, success |-> success, message |-> message,
     data |-> data, count |-> count, err |-> err]

NoReply == Reply(0, FALSE, "", <<>>, -1, "")

----------------------------------------------------------------------------
(* Truthiness, text and numbers *)

\* JavaScript truthiness, as !name / !age / !rollnumber / !city read it
Truthy(v) ==
    \/ v.t = "string" /\ Len(v.s) > 0
    \/ v.t = "number" /\ v.s # <<48>>

\* a string of n copies of character c
Rep(c, n) == [i \in 1..n |-> c]

\* the order of texts, character by character ("10" < "2"): the order of
\* ORDER BY rollnumber on a VARCHAR column
RECURSIVE StrLess(_, _)
StrLess(a, b) ==
    IF b = <<>> THEN FALSE
    ELSE IF a = <<>> THEN TRUE
    ELSE IF Head(a) # Head(b) THEN Head(a) < Head(b)
    ELSE StrLess(Tail(a), Tail(b))

\* decimal text of a natural number
RECURSIVE Digits(_)
Digits(n) ==
    IF n < 10 THEN <<48 + n>> ELSE Append(Digits(n \div 10), 48 + (n % 10))

IsDigit(c) == c >= 48 /\ c <= 57

\* value of a decimal text
RECURSIVE ParseNat(_)
ParseNat(s) ==
    IF s = <<>> THEN 0
    ELSE 10 * ParseNat(SubSeq(s, 1, Len(s) - 1)) + (s[Len(s)] - 48)

----------------------------------------------------------------------------
(* The pg driver and the column types of the students table *)

\* a statement parameter as pg sends it: undefined and null become NULL,
\* a number is sent as its decimal text, a string as it is
Param(v) ==
    IF v.t \in {"undefined", "null"} THEN [null |-> TRUE, txt |-> <<>>]
    ELSE [null |-> FALSE, txt |-> v.s]

\* VARCHAR(n): a longer text is refused with string_data_right_truncation
VarcharErr(p, n) == IF ~p.null /\ Len(p.txt) > n THEN "22001" ELSE ""

\* INTEGER: the text must be a decimal number that fits 32 bits
IntegerErr(p) ==
    IF p.null THEN ""
    ELSE IF p.txt = <<>> \/ \E i \in 1..Len(p.txt) : ~IsDigit(p.txt[i]) THEN "22P02"
    ELSE IF \/ Len(p.txt) > Len(Digits(IntMax))
            \/ Len(p.txt) = Len(Digits(IntMax)) /\ StrLess(Digits(IntMax), p.txt)
         THEN "22003"
    ELSE ""

\* the first error of a list of checks, "" when there is none
FirstErr(errs) ==
    IF \E i \in 1..Len(errs) : errs[i] # ""
    THEN errs[CHOOSE i \in 1..Len(errs) :
                 errs[i] # "" /\ \A j \in 1..(i - 1) : errs[j] = ""]
    ELSE ""

\* id SERIAL PRIMARY KEY: the next value of the sequence
NextIdReusing(s, st) == Cardinality(st) + 1
NextId(s, st) == s + 1

\* rollnumber VARCHAR(50) UNIQUE NOT NULL
UniqueErr(st, roll) ==
    IF \E r \in st : r.rollnumber = roll THEN "23505" ELSE ""

\* the outcome of a statement: the error code ("" for none), the rows
\* returned, and the table, the sequence and the clock after it
Outcome(err, rows, st, s, clk) ==
    [store |-> st, seq |-> s, now |-> clk, err |-> err, rows |-> rows]

\* INSERT INTO students (name, age, rollnumber, city)
\*   VALUES ($1, $2, $3, $4) RETURNING *
\* The integer parameter is parsed when the statement is bound; the row is
\* then formed (the sequence advances and is not rolled back), the lengths
\* and NOT NULL are checked, and the unique index is probed last.
InsertStudent(st, s, clk, name, age, rollnumber, city) ==
    LET p1 == Param(name)
        p2 == Param(age)
        p3 == Param(rollnumber)
        p4 == Param(city)
        bindErr == IntegerErr(p2)
        row == Student(NextId(s, st), p1.txt, ParseNat(p2.txt), p3.txt, p4.txt, clk)
        rowErr == FirstErr(<<VarcharErr(p1, NameLen), VarcharErr(p3, RollLen),
                             VarcharErr(p4, CityLen),
                             IF p1.null \/ p2.null \/ p3.null \/ p4.null
                             THEN "23502" ELSE "",
                             UniqueErr(st, p3.txt)>>)
    IN  IF bindErr # "" THEN Outcome(bindErr, <<>>, st, s, clk)
        ELSE IF rowErr # "" THEN Outcome(rowErr, <<>>, st, s + 1, clk)
        ELSE Outcome("", <<row>>, st \cup {row}, s + 1, clk + 1)

\* COALESCE($n, column)
CoalesceOverwrite(p, old) == p.txt
Coalesce(p, old) == IF p.null THEN old ELSE p.txt

CoalesceInt(p, old) == IF p.null THEN old ELSE ParseNat(p.txt)

\* the row an UPDATE writes for a matching row
UpdatedRow(r, p1, p2, p3, clk) ==
    [r EXCEPT !.name = Coalesce(p1, r.name), !.age = CoalesceInt(p2, r.age),
              !.city = Coalesce(p3, r.city)]

\* the rows of WHERE rollnumber = $n
Matching(st, roll) == {r \in st : r.rollnumber = roll}

\* a set of rows as a sequence, in some order
RECURSIVE AsSeq(_)
AsSeq(S) ==
    IF S = {} THEN <<>>
    ELSE LET r == CHOOSE x \in S : TRUE IN <<r>> \o AsSeq(S \ {r})

\* UPDATE students SET name = COALESCE($1, name), age = COALESCE($2, age),
\*   city = COALESCE($3, city) WHERE rollnumber = $4 RETURNING *
\* The integer parameter is parsed when the statement is bound, whether or
\* not a row matches; the lengths are checked on the rows written.
UpdateStudent(st, s, clk, name, age, city, rollnumber) ==
    LET p1 == Param(name)
        p2 == Param(age)
        p3 == Param(city)
        hit == Matching(st, rollnumber)
        bindErr == IntegerErr(p2)
        rowErr == IF hit = {} THEN ""
                  ELSE FirstErr(<<VarcharErr(p1, NameLen), VarcharErr(p3, CityLen)>>)
        new == {UpdatedRow(r, p1, p2, p3, clk) : r \in hit}
    IN  IF bindErr # "" THEN Outcome(bindErr, <<>>, st, s, clk)
        ELSE IF rowErr # "" THEN Outcome(rowErr, <<>>, st, s, clk)
        ELSE Outcome("", AsSeq(new), (st \ hit) \cup new, s, clk)

\* DELETE FROM students WHERE rollnumber = $1 RETURNING *
DeleteStudentKeeping(st, s, clk, rollnumber) ==
    Outcome("", AsSeq(Matching(st, rollnumber)), st, s, clk)
DeleteStudent(st, s, clk, rollnumber) ==
    LET hit == Matching(st, rollnumber)
    IN  Outcome("", AsSeq(hit), st \ hit, s, clk)

\* SELECT * FROM students WHERE rollnumber = $1
SelectStudent(st, s, clk, rollnumber) ==
    Outcome("", AsSeq(Matching(st, rollnumber)), st, s, clk)

\* ORDER BY rollnumber
RECURSIVE OrderById(_)
OrderById(S) ==
    IF S = {} THEN <<>>
    ELSE LET r == CHOOSE x \in S : \A y \in S : x.id <= y.id
         IN  <<r>> \o OrderById(S \ {r})
RECURSIVE OrderByRollnumber(_)
OrderByRollnumber(S) ==
    IF S = {} THEN <<>>
    ELSE LET r == CHOOSE x \in S :
                     \A y \in S : ~StrLess(y.rollnumber, x.rollnumber)
         IN  <<r>> \o OrderByRollnumber(S \ {r})

\* SELECT * FROM students ORDER BY rollnumber
SelectAll(st, s, clk) == Outcome("", OrderByRollnumber(st), st, s, clk)

----------------------------------------------------------------------------
(* The handlers' answers *)

\* if (!name || !age || !rollnumber || !city)
AllFieldsPresentNoAge(b) ==
    Truthy(b.name) /\ Truthy(b.rollnumber) /\ Truthy(b.city)
AllFieldsPresent(b) ==
    Truthy(b.name) /\ Truthy(b.age) /\ Truthy(b.rollnumber) /\ Truthy(b.city)

MissingFields ==
    Reply(400, FALSE, "All fields required: name, age, rollnumber, city",
          <<>>, -1, "")

\* if (result.rows.length === 0) return res.status(404)...
NotFoundUnchecked(rows) == FALSE
NotFound(rows) == Len(rows) = 0

StudentNotFound == Reply(404, FALSE, "Student not found", <<>>, -1, "")

\* the statement a handler runs
Statement(r, st, s, clk) ==
    CASE r.op = "list"   -> SelectAll(st, s, clk)
      [] r.op = "get"    -> SelectStudent(st, s, clk, r.roll)
      [] r.op = "create" -> InsertStudent(st, s, clk, r.body.name, r.body.age,
                                          r.body.rollnumber, r.body.city)
      [] r.op = "update" -> UpdateStudent(st, s, clk, r.body.name, r.body.age,
                                          r.body.city, r.roll)
      [] r.op = "delete" -> DeleteStudent(st, s, clk, r.roll)

\* data: result.rows[0], which is undefined (no data in the envelope) when
\* there is no row
FirstRow(rows) == IF rows = <<>> THEN <<>> ELSE <<rows[1]>>

\* what a handler answers after client.release(), from result.rows
OnRows(op, rows) ==
    CASE op = "list" ->
           Reply(200, TRUE, "", rows, Len(rows), "")
      [] op = "get" ->
           IF NotFound(rows) THEN StudentNotFound
           ELSE Reply(200, TRUE, "", FirstRow(rows), -1, "")
      [] op = "create" ->
           Reply(201, TRUE, "Student created successfully", FirstRow(rows), -1, "")
      [] op = "update" ->
           IF NotFound(rows) THEN StudentNotFound
           ELSE Reply(200, TRUE, "Student updated successfully", FirstRow(rows), -1, "")
      [] op = "delete" ->
           IF NotFound(rows) THEN StudentNotFound
           ELSE Reply(200, TRUE, "Student deleted successfully", FirstRow(rows), -1, "")

\* what a handler's catch block answers
OnError(op, err) ==
    CASE op = "list"   -> Reply(500, FALSE, "Error fetching students", <<>>, -1, err)
      [] op = "get"    -> Reply(500, FALSE, "Error fetching student", <<>>, -1, err)
      [] op = "create" ->
           IF err = "23505"
           THEN Reply(409, FALSE, "Roll number already exists", <<>>, -1, err)
           ELSE Reply(500, FALSE, "Error creating student", <<>>, -1, err)
      [] op = "update" -> Reply(500, FALSE, "Error updating student", <<>>, -1, err)
      [] op = "delete" -> Reply(500, FALSE, "Error deleting student", <<>>, -1, err)

\* the error of a connection that cannot be made or is lost
ConnectionFailure == "08006"

\* clients checked out of the pool
InUse == checkedOut.startup + checkedOut.requests

----------------------------------------------------------------------------
(* Startup: startServer, connectDB, initTable *)

\* the requests that can be in flight together
Reqs == {1, 2}

Init ==
    /\ boot = "connectDB"
    /\ connected = "pending"
    /\ dbError = FALSE
    /\ listening = FALSE
    /\ exitCode = -1
    /\ checkedOut = [startup |-> 0, requests |-> 0]
    /\ tableReady \in BOOLEAN
    /\ store = {}
    /\ seq = 0
    /\ now = 0
    /\ usedIds = {}
    /\ phase = [q \in Reqs |-> "idle"]
    /\ req = [q \in Reqs |-> NoRequest]
    /\ resp = [q \in Reqs |-> NoReply]
    /\ holds = [q \in Reqs |-> FALSE]

\* connectDB: catch (err) { console.error(...); return false; }
\* dbError records that the catch block logged a connection error
ConnectDBCatchTrue == "true"
ConnectDBCatch == "false"

\* connectDB: const client = await pool.connect();
DBConnect ==
    /\ boot = "connectDB"
    /\ checkedOut' = [checkedOut EXCEPT !.startup = @ + 1]
    /\ boot' = "testQuery"
    /\ UNCHANGED <<connected, dbError, listening, exitCode, dbVars, reqVars>>

\* connectDB: pool.connect() rejects
DBConnectFail ==
    /\ boot = "connectDB"
    /\ connected' = ConnectDBCatch
    /\ dbError' = TRUE
    /\ boot' = "decide"
    /\ UNCHANGED <<listening, exitCode, checkedOut, dbVars, reqVars>>

\* connectDB: SELECT NOW() answers; client.release(); return true
DBTestQuery ==
    /\ boot = "testQuery"
    /\ checkedOut' = [checkedOut EXCEPT !.startup = @ - 1]
    /\ connected' = "true"
    /\ boot' = "decide"
    /\ UNCHANGED <<dbError, listening, exitCode, dbVars, reqVars>>

\* connectDB: SELECT NOW() fails; the catch block returns without releasing
DBTestQueryFail ==
    /\ boot = "testQuery"
    /\ connected' = ConnectDBCatch
    /\ dbError' = TRUE
    /\ boot' = "decide"
    /\ UNCHANGED <<listening, exitCode, checkedOut, dbVars, reqVars>>

\* startServer: if (connected) { await initTable(); ...
StartInitTable ==
    /\ boot = "decide"
    /\ connected = "true"
    /\ boot' = "initTable"
    /\ UNCHANGED <<connected, dbError, listening, exitCode, checkedOut, dbVars, reqVars>>

\* startServer: } else { ...; process.exit(1); }
StartExit ==
    /\ boot = "decide"
    /\ connected # "true"
    /\ boot' = "exited"
    /\ exitCode' = 1
    /\ UNCHANGED <<connected, dbError, listening, checkedOut, dbVars, reqVars>>

\* initTable: const client = await pool.connect();
InitConnect ==
    /\ boot = "initTable"
    /\ checkedOut' = [checkedOut EXCEPT !.startup = @ + 1]
    /\ boot' = "createTable"
    /\ UNCHANGED <<connected, dbError, listening, exitCode, dbVars, reqVars>>

\* initTable: pool.connect() rejects; the error is logged and swallowed
InitConnectFail ==
    /\ boot = "initTable"
    /\ boot' = "listen"
    /\ UNCHANGED <<connected, dbError, listening, exitCode, checkedOut, dbVars, reqVars>>

\* initTable: CREATE TABLE IF NOT EXISTS students (...); client.release()
InitCreateTable ==
    /\ boot = "createTable"
    /\ tableReady' = TRUE
    /\ checkedOut' = [checkedOut EXCEPT !.startup = @ - 1]
    /\ boot' = "listen"
    /\ UNCHANGED <<connected, dbError, listening, exitCode, store, seq, now, usedIds,
                   reqVars>>

\* initTable: the statement fails; logged and swallowed, nothing released
InitCreateTableFail ==
    /\ boot = "createTable"
    /\ boot' = "listen"
    /\ UNCHANGED <<connected, dbError, listening, exitCode, checkedOut, dbVars, reqVars>>

\* startServer: app.listen(9000, ...)
Listen ==
    /\ boot = "listen"
    /\ listening' = TRUE
    /\ boot' = "serving"
    /\ UNCHANGED <<connected, dbError, exitCode, checkedOut, dbVars, reqVars>>

StartupOk ==
    \/ DBConnect \/ DBTestQuery \/ StartInitTable
    \/ InitConnect \/ InitCreateTable \/ Listen

StartupFail ==
    \/ DBConnectFail \/ DBTestQueryFail \/ StartExit
    \/ InitConnectFail \/ InitCreateTableFail

----------------------------------------------------------------------------
(* The five routes *)

\* if (!name || !age || !rollnumber || !city) return res.status(400)...
Rejected(r) == r.op = "create" /\ ~AllFieldsPresent(r.body)

InFlight(q) == phase[q] \in {"parsed", "connect", "query"}

\* creates on their way to the INSERT statement
PendingInserts ==
    Cardinality({q \in Reqs : InFlight(q) /\ req[q].op = "create"
                                 /\ ~Rejected(req[q])})

\* a request arrives; express.json() reads its body before the route's
\* handler is called
ArriveUpTo(q, r, cap) ==
    /\ listening
    /\ phase[q] \in {"idle", "done"}
    /\ (r.op = "create" /\ ~Rejected(r)) => seq + PendingInserts < cap
    /\ req' = [req EXCEPT ![q] = r]
    /\ resp' = [resp EXCEPT ![q] = NoReply]
    /\ holds' = [holds EXCEPT ![q] = FALSE]
    /\ phase' = [phase EXCEPT ![q] = "parsed"]
    /\ UNCHANGED <<bootVars, checkedOut, dbVars>>

Arrive(q, r) == ArriveUpTo(q, r, MaxSeq)

\* the handler runs to its first await: POST validates the body and may
\* answer 400 at once; every other path calls pool.connect(), which
\* reserves a client when the pool has one to give and queues the call
\* when every client is checked out
Handle(q) ==
    /\ phase[q] = "parsed"
    /\ IF Rejected(req[q])
       THEN /\ phase' = [phase EXCEPT ![q] = "done"]
            /\ resp' = [resp EXCEPT ![q] = MissingFields]
            /\ req' = [req EXCEPT ![q].body = NoBody]
            /\ UNCHANGED <<checkedOut, holds>>
       ELSE IF InUse < PoolMax
       THEN /\ phase' = [phase EXCEPT ![q] = "query"]
            /\ checkedOut' = [checkedOut EXCEPT !.requests = @ + 1]
            /\ holds' = [holds EXCEPT ![q] = TRUE]
            /\ UNCHANGED <<req, resp>>
       ELSE /\ phase' = [phase EXCEPT ![q] = "connect"]
            /\ UNCHANGED <<req, resp, checkedOut, holds>>
    /\ UNCHANGED <<bootVars, dbVars>>

\* pool.connect() rejects: the client the pool tried to open could not
\* connect and is dropped from the pool; the catch block answers
ConnectFail(q) ==
    /\ phase[q] = "parsed"
    /\ ~Rejected(req[q])
    /\ InUse < PoolMax
    /\ resp' = [resp EXCEPT ![q] = OnError(req[q].op, ConnectionFailure)]
    /\ phase' = [phase EXCEPT ![q] = "done"]
    /\ req' = [req EXCEPT ![q].body = NoBody]
    /\ UNCHANGED <<bootVars, checkedOut, dbVars, holds>>

\* a queued pool.connect() is given a client that another handler released
Connect(q) ==
    /\ phase[q] = "connect"
    /\ InUse < PoolMax
    /\ checkedOut' = [checkedOut EXCEPT !.requests = @ + 1]
    /\ holds' = [holds EXCEPT ![q] = TRUE]
    /\ phase' = [phase EXCEPT ![q] = "query"]
    /\ UNCHANGED <<bootVars, dbVars, req, resp>>

\* await client.query(...) and the rest of the handler: on rows,
\* client.release() and the answer; on an error, the catch block, which
\* answers and does not release.  Of an answered request the route and
\* its parameter are kept, as the record of what the answer is to.
Query(q) ==
    /\ phase[q] = "query"
    /\ LET o == IF tableReady THEN Statement(req[q], store, seq, now)
                ELSE Outcome("42P01", <<>>, store, seq, now)
           r == req[q]
       IN  /\ store' = o.store
           /\ seq' = o.seq
           /\ now' = o.now
           /\ usedIds' = usedIds \cup {x.id : x \in o.store}
           /\ IF o.err = ""
              THEN /\ checkedOut' = [checkedOut EXCEPT !.requests = @ - 1]
                   /\ holds' = [holds EXCEPT ![q] = FALSE]
                   /\ resp' = [resp EXCEPT ![q] = OnRows(r.op, o.rows)]
              ELSE /\ resp' = [resp EXCEPT ![q] = OnError(r.op, o.err)]
                   /\ UNCHANGED <<checkedOut, holds>>
    /\ phase' = [phase EXCEPT ![q] = "done"]
    /\ req' = [req EXCEPT ![q].body = NoBody]
    /\ UNCHANGED <<bootVars, tableReady>>

\* client.query(...) rejects because the connection is lost before the
\* statement runs; the catch block answers and does not release
QueryFail(q) ==
    /\ phase[q] = "query"
    /\ resp' = [resp EXCEPT ![q] = OnError(req[q].op, ConnectionFailure)]
    /\ phase' = [phase EXCEPT ![q] = "done"]
    /\ req' = [req EXCEPT ![q].body = NoBody]
    /\ UNCHANGED <<bootVars, checkedOut, dbVars, holds>>

----------------------------------------------------------------------------
(* Inputs *)

\* a text one character longer than n
Long(n) == Rep(97, n + 1)

\* "0", "20", "21" and "2147483648"
Zero == Digits(0)
Twenty == Digits(20)
TwentyOne == Digits(21)
TooBig == Append(SubSeq(Digits(IntMax), 1, Len(Digits(IntMax)) - 1), 56)

\* rollnumbers "10" and "2"
PathRolls == {<<49, 48>>, <<50>>}

\* a create that the store accepts, for each rollnumber
GoodCreates ==
    {Body(Str(<<97>>), Num(Twenty), Str(r), Str(<<120>>)) : r \in PathRolls}

\* the good creates; each with one field missing, empty, zero or too large
\* for its column; and one with every field missing
CreateBodies ==
    GoodCreates
    \cup {[b EXCEPT !.name = v] : b \in GoodCreates,
                                  v \in {Undefined, Str(Long(NameLen))}}
    \cup {[b EXCEPT !.age = v] : b \in GoodCreates,
                                 v \in {Num(Zero), Num(TooBig)}}
    \cup {[b EXCEPT !.rollnumber = Str(<<>>)] : b \in GoodCreates}
    \cup {[b EXCEPT !.city = Undefined] : b \in GoodCreates}
    \cup {Body(Undefined, Num(Zero), Str(<<>>), Undefined)}

\* every subset of name, age and city, with values the columns accept
GoodUpdates ==
    [name : {Undefined, Str(<<98>>)},
     age : {Undefined, Num(TwentyOne)},
     rollnumber : {Undefined},
     city : {Undefined, Str(<<121>>)}]

\* the good updates; and a name too long, an age too large and a null
\* city, each alone and with the other two fields supplied
UpdateBodies ==
    LET ends == {Body(Undefined, Undefined, Undefined, Undefined),
                 Body(Str(<<98>>), Num(TwentyOne), Undefined, Str(<<121>>))}
    IN  GoodUpdates
        \cup {[b EXCEPT !.name = Str(Long(NameLen))] : b \in ends}
        \cup {[b EXCEPT !.age = Num(TooBig)] : b \in ends}
        \cup {[b EXCEPT !.city = Null] : b \in ends}

\* GET /students
GetStudents(q) == Arrive(q, Request("list", <<>>, NoBody))

\* GET /students/:rollnumber
GetStudent(q) == \E roll \in PathRolls : Arrive(q, Request("get", roll, NoBody))

\* POST /students
PostStudent(q) == \E b \in CreateBodies : Arrive(q, Request("create", <<>>, b))

\* PUT /students/:rollnumber
PutStudent(q) ==
    \E roll \in PathRolls, b \in UpdateBodies : Arrive(q, Request("update", roll, b))

\* DELETE /students/:rollnumber
DeleteStudentRoute(q) ==
    \E roll \in PathRolls : Arrive(q, Request("delete", roll, NoBody))

Routes(q) ==
    \/ GetStudents(q) \/ GetStudent(q) \/ PostStudent(q)
    \/ PutStudent(q) \/ DeleteStudentRoute(q)

\* the steps of a handler that is not made to wait for a client
HandlerSteps(q) == Handle(q) \/ Query(q)

\* the steps of a handler
Handler(q) == HandlerSteps(q) \/ Connect(q)

HandlerFail(q) == ConnectFail(q) \/ QueryFail(q)

\* requests served one after another, with every input of the routes (a
\* handler that runs alone is never handed a client by another)
Next ==
    \/ StartupOk \/ StartupFail
    \/ \E q \in {1} : Routes(q) \/ HandlerSteps(q) \/ HandlerFail(q)

Spec == Init /\ [][Next]_vars

\* creates of rollnumber "10" alone, served concurrently by a store that
\* does not fail (no create releases a client while another waits for one)
DupBodies ==
    [name : {Str(<<97>>), Str(<<98>>)}, age : {Num(Twenty)},
     rollnumber : {Str(<<49, 48>>)}, city : {Str(<<120>>)}]

PostDuplicate(q) ==
    \E b \in DupBodies : ArriveUpTo(q, Request("create", <<>>, b), MaxDupSeq)

NextDup ==
    \/ StartupOk
    \/ \E q \in Reqs : PostDuplicate(q) \/ HandlerSteps(q)

\* Node runs every continuation that is ready and the store answers every
\* statement it is sent: a step of startup or of a handler that stays
\* possible is taken.  Nothing obliges a client to send a request.
DupSpec == Init /\ [][NextDup]_vars /\ WF_vars(StartupOk)
                /\ \A q \in Reqs : WF_vars(HandlerSteps(q))

\* one request of each route, served concurrently by a store that may fail
LiveRequests ==
    {Request("list", <<>>, NoBody),
     Request("get", <<49, 48>>, NoBody),
     Request("create", <<>>, Body(Str(<<97>>), Num(Twenty), Str(<<49, 48>>), Str(<<120>>))),
     Request("update", <<49, 48>>, Body(Undefined, Undefined, Undefined, Str(<<121>>))),
     Request("delete", <<49, 48>>, NoBody)}

AnyRoute(q) == \E r \in LiveRequests : Arrive(q, r)

NextLive ==
    \/ StartupOk \/ StartupFail
    \/ \E q \in Reqs : AnyRoute(q) \/ Handler(q) \/ HandlerFail(q)

LiveSpec == Init /\ [][NextLive]_vars /\ WF_vars(StartupOk) /\ WF_vars(StartExit)
                 /\ \A q \in Reqs : WF_vars(Handler(q))

----------------------------------------------------------------------------
(* Vocabulary of the properties *)

\* errors of the store itself, not of the request: the connection is lost,
\* or the students table was never created
StoreFailures == {ConnectionFailure, "42P01"}

\* the step in which the store runs the statement of request q and the
\* handler answers
Executed(q) ==
    /\ phase[q] = "query"
    /\ phase'[q] = "done"
    /\ resp'[q].err \notin StoreFailures

Held(st, roll) == \E r \in st : r.rollnumber = roll

RowOf(st, roll) == CHOOSE r \in st : r.rollnumber = roll

Fields == {"name", "age", "rollnumber", "city"}

AnyFalsy(b) == \E f \in Fields : ~Truthy(b[f])

Supplied(v) == v.t # "undefined"

FitsVarchar(v, n) == v.t = "string" /\ Len(v.s) <= n

FitsInteger(v) == v.t = "number" /\ IntegerErr([null |-> FALSE, txt |-> v.s]) = ""

\* the values of a create are valid for the columns they go to
CreateFits(b) ==
    /\ FitsVarchar(b.name, NameLen)
    /\ FitsInteger(b.age)
    /\ FitsVarchar(b.rollnumber, RollLen)
    /\ FitsVarchar(b.city, CityLen)

\* the values an update supplies are not null and valid for their columns
UpdateFits(b) ==
    /\ Supplied(b.name) => FitsVarchar(b.name, NameLen)
    /\ Supplied(b.age) => FitsInteger(b.age)
    /\ Supplied(b.city) => FitsVarchar(b.city, CityLen)

\* 201, exactly one new row that echoes the body and has a fresh id
Created(q) ==
    LET b == req[q].body
    IN  /\ resp'[q].status = 201
        /\ resp'[q].success
        /\ \E row \in store' \ store :
              /\ store' = store \cup {row}
              /\ row.name = b.name.s
              /\ Digits(row.age) = b.age.s
              /\ row.rollnumber = b.rollnumber.s
              /\ row.city = b.city.s
              /\ row.id \notin usedIds
              /\ resp'[q].data = <<row>>

\* 200, the stored row with exactly the supplied fields replaced
Merged(q) ==
    LET b == req[q].body
        old == RowOf(store, req[q].roll)
        new == [old EXCEPT
                  !.name = IF Supplied(b.name) THEN b.name.s ELSE @,
                  !.age = IF Supplied(b.age) THEN ParseNat(b.age.s) ELSE @,
                  !.city = IF Supplied(b.city) THEN b.city.s ELSE @]
    IN  /\ resp'[q].status = 200
        /\ resp'[q].success
        /\ resp'[q].data = <<new>>
        /\ store' = (store \ {old}) \cup {new}

----------------------------------------------------------------------------
(* Properties *)

\* C1, as claimed: a create whose four fields are all truthy and whose
\* rollnumber no stored row holds answers 201, adds exactly one row that
\* echoes the input, with an id no row ever had, and changes no other row.
C1_CreateAnyTruthy ==
    [][\A q \in Reqs :
          (/\ Executed(q)
           /\ req[q].op = "create"
           /\ ~AnyFalsy(req[q].body)
           /\ ~Held(store, req[q].body.rollnumber.s)) => Created(q)]_vars

\* C1, amended: the same, for a create whose values are also valid for the
\* columns (name and city strings of at most 100 characters, rollnumber a
\* string of at most 50, age an integer that fits 32 bits).
C1_CreateValid ==
    [][\A q \in Reqs :
          (/\ Executed(q)
           /\ req[q].op = "create"
           /\ ~AnyFalsy(req[q].body)
           /\ CreateFits(req[q].body)
           /\ ~Held(store, req[q].body.rollnumber.s)) => Created(q)]_vars

\* a create answered 201 after an earlier row was deleted
C1_Witness ==
    \E q \in Reqs :
        /\ phase[q] = "done"
        /\ req[q].op = "create"
        /\ resp[q].status = 201
        /\ resp[q].data[1] \in store
        /\ \E i \in usedIds : \A r \in store : r.id # i

\* C2: of the creates that carry one rollnumber, issued in sequence or
\* concurrently, every one is answered, one with 201 and every other with
\* 409, and no two stored rows share a rollnumber.
C2_DuplicateCreates ==
    /\ [](\A r1, r2 \in store : r1.rollnumber = r2.rollnumber => r1 = r2)
    /\ [](\A q1, q2 \in Reqs :
             (/\ phase[q1] = "done" /\ resp[q1].status = 201
              /\ phase[q2] = "done" /\ resp[q2].status = 201) => q1 = q2)
    /\ \A q \in Reqs :
          (phase[q] = "parsed") ~>
              (phase[q] = "done" /\ resp[q].status \in {201, 409})

\* C3: a create with an absent or falsy field is answered 400 by the
\* handler's first step: no client is taken from the pool, no statement
\* is run, the table is unchanged.
C3_MissingFieldRejected ==
    [][\A q \in Reqs :
          (/\ phase[q] = "parsed"
           /\ phase'[q] # "parsed"
           /\ req[q].op = "create"
           /\ AnyFalsy(req[q].body))
          => (/\ phase'[q] = "done"
              /\ resp'[q].status = 400
              /\ ~resp'[q].success
              /\ checkedOut' = checkedOut
              /\ ~holds'[q]
              /\ store' = store
              /\ seq' = seq)]_vars

\* a create answered 400 while the table holds a row
C3_Witness ==
    \E q \in Reqs :
        /\ phase[q] = "done"
        /\ req[q].op = "create"
        /\ resp[q].status = 400
        /\ store # {}

\* C4: a handler that has answered holds no client, and when no handler
\* is running no client taken by a handler is checked out.
C4_ConnectionsReturned ==
    /\ \A q \in Reqs : phase[q] = "done" => ~holds[q]
    /\ (\A q \in Reqs : ~InFlight(q)) => checkedOut.requests = 0

\* C5, as claimed: an update of a stored rollnumber answers 200 with the
\* merged row, whatever subset of name, age and city the body supplies:
\* the supplied fields take the supplied values, everything else stays.
C5_UpdateAnySubset ==
    [][\A q \in Reqs :
          (/\ Executed(q)
           /\ req[q].op = "update"
           /\ Held(store, req[q].roll)) => Merged(q)]_vars

\* C5, amended: the same, for an update whose supplied values are not
\* null and are valid for their columns.
C5_UpdateValidSubset ==
    [][\A q \in Reqs :
          (/\ Executed(q)
           /\ req[q].op = "update"
           /\ UpdateFits(req[q].body)
           /\ Held(store, req[q].roll)) => Merged(q)]_vars

\* an update that supplied the city alone: name and age are as created
C5_Witness ==
    \E q \in Reqs :
        /\ phase[q] = "done"
        /\ req[q].op = "update"
        /\ resp[q].status = 200
        /\ resp[q].data[1].city = <<121>>
        /\ resp[q].data[1].name = <<97>>
        /\ resp[q].data[1].age = 20
        /\ resp[q].data[1] \in store

\* C6: a delete of a stored rollnumber answers 200 with the row as stored
\* and removes that row alone; a rollnumber that no row holds comes to be
\* held by nothing but a create of it that answers 201; and a get of a
\* rollnumber that no row holds answers 404.  Hence a get that follows a
\* delete, with no create of the rollnumber between them, answers 404.
C6_DeleteThenGet ==
    [][/\ \A q \in Reqs :
             /\ (/\ Executed(q)
                 /\ req[q].op = "delete"
                 /\ Held(store, req[q].roll))
                => (/\ resp'[q].status = 200
                    /\ resp'[q].success
                    /\ resp'[q].data = <<RowOf(store, req[q].roll)>>
                    /\ store' = store \ {RowOf(store, req[q].roll)})
             /\ (/\ Executed(q)
                 /\ req[q].op = "get"
                 /\ ~Held(store, req[q].roll))
                => (resp'[q].status = 404 /\ store' = store)
       /\ \A roll \in {r.rollnumber : r \in store'} :
             ~Held(store, roll)
             => \E q \in Reqs :
                   /\ Executed(q)
                   /\ req[q].op = "create"
                   /\ req[q].body.rollnumber.s = roll
                   /\ resp'[q].status = 201]_vars

\* a get answered 404 when every row ever stored (both rollnumbers) has
\* been deleted
C6_Witness ==
    \E q \in Reqs :
        /\ phase[q] = "done"
        /\ req[q].op = "get"
        /\ resp[q].status = 404
        /\ store = {}
        /\ Cardinality(usedIds) = 2

\* C7, as claimed: a get, an update or a delete of a rollnumber that no
\* stored row holds answers 404 with success false and changes nothing.
C7_MissingIsNotFound ==
    [][\A q \in Reqs :
          (/\ Executed(q)
           /\ req[q].op \in {"get", "update", "delete"}
           /\ ~Held(store, req[q].roll))
          => (/\ resp'[q].status = 404
              /\ ~resp'[q].success
              /\ store' = store)]_vars

\* C7, amended: the same, where the values an update supplies are valid
\* for their columns.
C7_MissingIsNotFoundValid ==
    [][\A q \in Reqs :
          (/\ Executed(q)
           /\ req[q].op \in {"get", "update", "delete"}
           /\ req[q].op = "update" => UpdateFits(req[q].body)
           /\ ~Held(store, req[q].roll))
          => (/\ resp'[q].status = 404
              /\ ~resp'[q].success
              /\ store' = store)]_vars

\* a delete answered 404 when every row ever stored (both rollnumbers)
\* has already been deleted
C7_Witness ==
    \E q \in Reqs :
        /\ phase[q] = "done"
        /\ req[q].op = "delete"
        /\ resp[q].status = 404
        /\ store = {}
        /\ Cardinality(usedIds) = 2

\* C8: a list answers 200 with exactly the stored rows, each once, in
\* ascending order of rollnumber, with count their number, and changes
\* nothing.
C8_ListSorted ==
    [][\A q \in Reqs :
          (Executed(q) /\ req[q].op = "list")
          => LET d == resp'[q].data
             IN  /\ resp'[q].status = 200
                 /\ resp'[q].success
                 /\ {d[i] : i \in 1..Len(d)} = store
                 /\ Len(d) = Cardinality(store)
                 /\ \A i, j \in 1..Len(d) :
                       i < j => StrLess(d[i].rollnumber, d[j].rollnumber)
                 /\ resp'[q].count = Len(d)
                 /\ store' = store]_vars

\* a list of two rows whose order is not the order they were created in
C8_Witness ==
    \E q \in Reqs :
        /\ phase[q] = "done"
        /\ req[q].op = "list"
        /\ Len(resp[q].data) = 2
        /\ resp[q].data[1].id > resp[q].data[2].id

\* C9: the listener is bound only when connectDB returned true; when the
\* check failed connectDB has returned false, the listener is never bound,
\* no request is served, and the one step left is the exit with status 1.
C9_ListenOnlyWhenConnected ==
    /\ listening => connected = "true" /\ ~dbError
    /\ dbError =>
          /\ connected = "false"
          /\ ~listening
          /\ boot \in {"decide", "exited"}
          /\ \A q \in Reqs : phase[q] = "idle"
    /\ (dbError /\ boot = "decide") => ENABLED StartExit /\ ~ENABLED StartInitTable
    /\ boot = "exited" <=> exitCode = 1
    /\ boot = "exited" => dbError

\* the liveness query failed and the process has exited
C9_Witness ==
    /\ boot = "exited"
    /\ exitCode = 1
    /\ dbError
    /\ checkedOut.startup = 1
    /\ ~listening

\* C10: every request that arrives is answered, whatever failures the
\* requests before it or beside it have met.
C10_EveryRequestAnswered ==
    \A q \in Reqs :
        (phase[q] = "parsed") ~> (phase[q] = "done" /\ resp[q].status # 0)

====
